---- MODULE Spec2Model ----
(***************************************************************************)
(* Model of the Skern tag system (src/app.py): the per-session simulated   *)
(* registry, the "Generate Full Tag" handler, the four component           *)
(* detectors, analyze_tag_image and the verification branch of tab 2.      *)
(*                                                                         *)
(* Strings are sequences of one-character strings, so that str.split,      *)
(* str.upper, str.zfill and the `in` test are computed as Python computes  *)
(* them.  None is the model value "None".                                  *)
(***************************************************************************)
EXTENDS Integers, Sequences, FiniteSets, TLC

VARIABLES
    tag_database,   \* session -> (cert_id -> registry record): st.session_state.tag_database
    pc,             \* session -> position of the session's script run in the Generate handler
    bundle,         \* session -> the bundle of the running Generate handler, or None
    tags,           \* the bundles whose tag image has been assembled (final_tag exists)
    clock,          \* datetime.now(): number of issuances started so far
    last,           \* the last verification: session, analysis, tag_data, verdict
    image,          \* the photograph handed to analyze_tag_image
    result,         \* what analyze_tag_image returned (or that an exception escaped)
    rt,             \* the issue-then-scan round trip of one cert_id
    pixel,          \* one pixel of the five layers and of the tag composited from them
    walk,           \* the dash walk of generate_corner_border_layer
    curve           \* the curve loop of generate_guilloche_underlay

vars == <<tag_database, pc, bundle, tags, clock, last, image, result, rt, pixel, walk, curve>>

\* the renderers' state, which the running system and the analyzer leave alone
render == <<pixel, walk, curve>>
\* no renderer is being followed
RenderIdle ==
    /\ pixel = [stage |-> "idle"]
    /\ walk = [stage |-> "idle"]
    /\ curve = [stage |-> "idle"]

\* Python's None and a present value, for the optional values of the program
None == <<>>
Some(v) == <<v>>

(***************************************************************************)
(* Bounds of the model.                                                    *)
(***************************************************************************)
\* issuances started in one run of the model (over all sessions)
MaxIssue == 2
\* largest pixel count of one colour band in a photograph
MaxBand == 3
\* decoded QR objects in one photograph
MaxObjects == 2

\* Browser sessions: Streamlit keeps one st.session_state per session.
Sessions == {"s1", "s2"}

(***************************************************************************)
(* Python string operations.                                               *)
(***************************************************************************)
\* s[i:] for a 1-based i
Drop(s, i) == SubSeq(s, i, Len(s))

\* s.find(sep) from position i on, 1-based, 0 when absent
RECURSIVE FindFrom(_, _, _)
FindFrom(s, sep, i) ==
    IF i + Len(sep) - 1 > Len(s) THEN 0
    ELSE IF SubSeq(s, i, i + Len(sep) - 1) = sep THEN i
    ELSE FindFrom(s, sep, i + 1)

\* s.find(sep), 1-based, 0 when absent
Find(s, sep) == FindFrom(s, sep, 1)

\* sep in s
Contains(s, sep) == Find(s, sep) # 0

\* s.split(sep): the pieces between the non-overlapping occurrences of sep, left to right
RECURSIVE Split(_, _)
Split(s, sep) ==
    LET i == Find(s, sep)
    IN  IF i = 0 THEN <<s>>
        ELSE <<SubSeq(s, 1, i - 1)>> \o Split(Drop(s, i + Len(sep)), sep)

LowerLetters == <<"a","b","c","d","e","f","g","h","i","j","k","l","m",
                  "n","o","p","q","r","s","t","u","v","w","x","y","z">>
UpperLetters == <<"A","B","C","D","E","F","G","H","I","J","K","L","M",
                  "N","O","P","Q","R","S","T","U","V","W","X","Y","Z">>

\* c.upper() for one character
UpperChar(c) ==
    IF \E k \in 1..Len(LowerLetters) : LowerLetters[k] = c
    THEN UpperLetters[CHOOSE k \in 1..Len(LowerLetters) : LowerLetters[k] = c]
    ELSE c

\* s.upper()
Upper(s) == [k \in 1..Len(s) |-> UpperChar(s[k])]

\* n copies of the character c
Repeat(c, n) == [k \in 1..n |-> c]

\* s.zfill(width): zeros on the left, after a leading sign
Zfill(s, width) ==
    IF Len(s) >= width THEN s
    ELSE IF Len(s) > 0 /\ s[1] \in {"+", "-"}
         THEN <<s[1]>> \o Repeat("0", width - Len(s)) \o Drop(s, 2)
         ELSE Repeat("0", width - Len(s)) \o s

HexDigits == <<"0","1","2","3","4","5","6","7","8","9","a","b","c","d","e","f">>

\* bytes.hex(): two lowercase hex digits per byte
RECURSIVE Hex(_)
Hex(bytes) ==
    IF bytes = <<>> THEN <<>>
    ELSE <<HexDigits[(Head(bytes) \div 16) + 1], HexDigits[(Head(bytes) % 16) + 1]>> \o Hex(Tail(bytes))

\* s[:n]
Take(s, n) == SubSeq(s, 1, IF n < Len(s) THEN n ELSE Len(s))

\* the strings over alphabet A of length at most n
StringsUpTo(A, n) == UNION {[1..k -> A] : k \in 0..n}

\* Python truthiness of an optional str: None and "" are falsy
TruthyStr(v) == v # None /\ v[1] # <<>>

\* Python truthiness of an optional dict: None and {} are falsy
TruthyDict(v) == v # None /\ DOMAIN v[1] # {}

(***************************************************************************)
(* Exceptions: a call either returns a value or raises.                    *)
(***************************************************************************)
Return(v) == [raised |-> FALSE, value |-> v]
Raise == [raised |-> TRUE, value |-> None]

\* a body with no except clause around it: the exception goes on to the caller
CatchNothing(r, default) == r
\* try: <body> / except Exception: return default
Catch(r, default) == IF r.raised THEN Return(default) ELSE r

(***************************************************************************)
(* Issuance: batch code, secret bundle, QR payload.                        *)
(***************************************************************************)
\* max_chars of the three text inputs
YearMaxChars == 2
FactoryMaxChars == 3
SequenceMaxChars == 3
\* width of batch_sequence.zfill
SequenceWidth == 3

\* f"B{batch_year_short}{factory_code.upper()}{batch_sequence.zfill(3)}"
batch_code(batch_year_short, factory_code, batch_sequence) ==
    <<"B">> \o batch_year_short \o Upper(factory_code) \o Zfill(batch_sequence, SequenceWidth)

\* hex digits kept of the digest and of the serial bytes
HexChars == 12

\* generate_secret_bundle.  cert_hash is hashlib.sha256(cert_random).digest() for 16
\* fresh random bytes; the three other arguments are the secrets.token_bytes draws.
generate_secret_bundle(batch, cert_hash, guilloche_secret, border_secret, serial_random) ==
    [cert_id |-> <<"C", "E", "R", "T", "-">> \o batch \o <<"-">>
                    \o Upper(Take(Hex(cert_hash), HexChars)),
     guilloche_id |-> guilloche_secret,
     border_id |-> border_secret,
     serial_number |-> <<"S", "K", "-">> \o Upper(Take(Hex(serial_random), HexChars))]

\* the marker 'id='
IdMarker == <<"i", "d", "=">>

\* f"https://skern.com/verify?id={cert_id}", the data of the QR layer
VerifyUrl == <<"h","t","t","p","s",":","/","/","s","k","e","r","n",".","c","o","m",
               "/","v","e","r","i","f","y","?">> \o IdMarker
qr_url(cert_id) == VerifyUrl \o cert_id

(***************************************************************************)
(* Verification: the four detectors and analyze_tag_image.                 *)
(*                                                                         *)
(* A photograph is the record of what the library calls make of it:        *)
(*   objects        pyzbar's decode(): the decoded objects, in order, each *)
(*                  with its data as text and whether the bytes are UTF-8  *)
(*   width, height  image.size                                             *)
(*   cyan_pixels, magenta_pixels   np.sum(mask > 0) of the two inRange     *)
(*                  masks                                                  *)
(*   lines          cv2.HoughLinesP: None or the number of segments        *)
(*   corner_count   np.sum(corners > 0.01 * corners.max())                 *)
(*   fails          the detectors in which a library call raises           *)
(***************************************************************************)
\* the loop of detect_qr_code over decoded_objects
RECURSIVE detect_qr_loop(_)
detect_qr_loop(objects) ==
    IF objects = <<>> THEN Return(None)
    ELSE IF ~Head(objects).utf8 THEN Raise
    ELSE IF Contains(Head(objects).data, IdMarker)
         THEN Return(Some(Split(Head(objects).data, IdMarker)[2]))
         ELSE detect_qr_loop(Tail(objects))

\* detect_qr_code: None or the extracted str
detect_qr_code(img) ==
    Catch(IF "qr" \in img.fails THEN Raise ELSE detect_qr_loop(img.objects), None)

\* threshold = total_pixels * 0.02 and the two comparisons against it.  The product is
\* a double; for integer counts n > total_pixels * 0.02 is n * 50 > total_pixels (the
\* product is exact when 50 divides total_pixels, and otherwise its rounding error is
\* far below its distance to the nearest integer).
ThresholdDivisor == 50
\* the comparisons written with >= instead of >
guilloche_over_threshold_ge(cyan_pixels, magenta_pixels, total_pixels) ==
    \/ cyan_pixels * ThresholdDivisor >= total_pixels
    \/ magenta_pixels * ThresholdDivisor >= total_pixels
\* cyan_pixels > threshold or magenta_pixels > threshold
guilloche_over_threshold(cyan_pixels, magenta_pixels, total_pixels) ==
    \/ cyan_pixels * ThresholdDivisor > total_pixels
    \/ magenta_pixels * ThresholdDivisor > total_pixels

\* detect_guilloche_pattern
detect_guilloche_pattern(img) ==
    Catch(IF "guilloche" \in img.fails THEN Raise
          ELSE Return(guilloche_over_threshold(img.cyan_pixels, img.magenta_pixels,
                                               img.width * img.height)),
          FALSE)

\* len(lines) > 10
MinLines == 10

\* detect_grid_pattern
detect_grid_pattern(img) ==
    Catch(IF "grid" \in img.fails THEN Raise
          ELSE Return(img.lines # None /\ img.lines[1] > MinLines),
          FALSE)

\* corner_count >= 4
MinCorners == 4

\* detect_corner_markers
detect_corner_markers(img) ==
    Catch(IF "corners" \in img.fails THEN Raise
          ELSE Return(img.corner_count >= MinCorners),
          FALSE)

\* qr_cert_id assigned outside the `if cert_id:`
qr_fields_always(cert_id) ==
    [qr_detected |-> TruthyStr(cert_id), qr_cert_id |-> cert_id]
\* lines 138-141 of analyze_tag_image: qr_detected and qr_cert_id from detect_qr_code's value
qr_fields(cert_id) ==
    IF TruthyStr(cert_id)
    THEN [qr_detected |-> TRUE, qr_cert_id |-> cert_id]
    ELSE [qr_detected |-> FALSE, qr_cert_id |-> None]

\* the conjunction with corners_detected left out
overall_valid_no_corners(qr_detected, guilloche_detected, grid_detected, corners_detected) ==
    qr_detected /\ guilloche_detected /\ grid_detected
\* lines 153-158 of analyze_tag_image
overall_valid(qr_detected, guilloche_detected, grid_detected, corners_detected) ==
    qr_detected /\ guilloche_detected /\ grid_detected /\ corners_detected

\* analyze_tag_image: the results dict, or the exception of a detector call
analyze_tag_image(img) ==
    LET q == detect_qr_code(img)
        g == detect_guilloche_pattern(img)
        l == detect_grid_pattern(img)
        c == detect_corner_markers(img)
        f == qr_fields(q.value)
    IN  IF q.raised \/ g.raised \/ l.raised \/ c.raised THEN Raise
        ELSE Return([qr_detected |-> f.qr_detected,
                     qr_cert_id |-> f.qr_cert_id,
                     guilloche_detected |-> g.value,
                     grid_detected |-> l.value,
                     corners_detected |-> c.value,
                     overall_valid |-> overall_valid(f.qr_detected, g.value, l.value, c.value)])

(***************************************************************************)
(* The simulated registry and the decision of tab 2.                       *)
(***************************************************************************)
\* store_tag_in_db: tag_database[bundle['cert_id']] = {...}
store_tag_in_db(db, b, batch, now) ==
    [k \in DOMAIN db \cup {b.cert_id} |->
        IF k = b.cert_id
        THEN [batch_code |-> batch, cert_id |-> b.cert_id,
              guilloche_id |-> Hex(b.guilloche_id), border_id |-> Hex(b.border_id),
              serial_number |-> b.serial_number, created_at |-> now, authentic |-> TRUE]
        ELSE db[k]]

\* verify_tag_in_db: the record, or None
verify_tag_in_db(db, cert_id) ==
    IF cert_id \in DOMAIN db THEN Some(db[cert_id]) ELSE None

\* lines 491-493: the registry lookup of the extracted cert_id
lookup_tag_data(db, analysis) ==
    IF TruthyStr(analysis.qr_cert_id) THEN verify_tag_in_db(db, analysis.qr_cert_id[1]) ELSE None

\* the chain with the SUSPICIOUS and COUNTERFEIT conditions exchanged
verdict_swapped(analysis, tag_data) ==
    IF TruthyDict(tag_data) /\ analysis.overall_valid THEN "AUTHENTIC"
    ELSE IF TruthyStr(analysis.qr_cert_id) /\ ~TruthyDict(tag_data) THEN "SUSPICIOUS"
    ELSE IF TruthyDict(tag_data) /\ ~analysis.overall_valid THEN "COUNTERFEIT"
    ELSE "SCAN_FAILED"
\* lines 495-544: the if/elif chain that picks the verdict shown
verdict_of(analysis, tag_data) ==
    IF TruthyDict(tag_data) /\ analysis.overall_valid THEN "AUTHENTIC"
    ELSE IF TruthyDict(tag_data) /\ ~analysis.overall_valid THEN "SUSPICIOUS"
    ELSE IF TruthyStr(analysis.qr_cert_id) /\ ~TruthyDict(tag_data) THEN "COUNTERFEIT"
    ELSE "SCAN_FAILED"

(***************************************************************************)
(* The running system: browser sessions issuing and verifying tags.        *)
(***************************************************************************)
\* what operators type into the three batch fields
YearInputs == {<<"2", "6">>}
FactoryInputs == {<<"a">>}
SequenceInputs == {<<"1">>, <<"i", "d", "=">>}

\* outcomes of secrets.token_bytes(n) and of the SHA-256 digest
RandomBytes == {29, 171}
TokenBytes(n) == {Repeat(b, n) : b \in RandomBytes}
Digests == TokenBytes(32)
SerialDraws == {Repeat(29, 6)}
GuillocheSecrets == {Repeat(7, 16)}
BorderSecrets == {Repeat(200, 16)}

\* a cert_id no issuance of this system produces
ForeignId == <<"C", "E", "R", "T", "-", "X">>

\* the photographs: a clear one, and one whose guilloche is washed out
ClearPhoto(objects) ==
    [objects |-> objects, width |-> 10, height |-> 10, cyan_pixels |-> 3,
     magenta_pixels |-> 3, lines |-> Some(11), corner_count |-> 4, fails |-> {}]
WornPhoto(objects) ==
    [objects |-> objects, width |-> 10, height |-> 10, cyan_pixels |-> 0,
     magenta_pixels |-> 0, lines |-> Some(11), corner_count |-> 4, fails |-> {}]

\* QR data a camera can be pointed at: an assembled tag, a copy made from an
\* identifier read off any registry, a foreign code, or no code at all
ScannableData ==
    {t.qr_data : t \in tags}
        \cup {qr_url(k) : k \in UNION {DOMAIN tag_database[s] : s \in Sessions}}
        \cup {qr_url(ForeignId)}
Photographs ==
    {ClearPhoto(<<>>)}
        \cup {ClearPhoto(<<[data |-> d, utf8 |-> TRUE]>>) : d \in ScannableData}
        \cup {WornPhoto(<<[data |-> d, utf8 |-> TRUE]>>) : d \in ScannableData}

Init ==
    /\ tag_database = [s \in Sessions |-> <<>>]
    /\ pc = [s \in Sessions |-> "idle"]
    /\ bundle = [s \in Sessions |-> None]
    /\ tags = {}
    /\ clock = 0
    /\ last = None
    /\ image = None
    /\ result = None
    /\ rt = [stage |-> "idle"]
    /\ RenderIdle

\* "Generate Full Tag", lines 371-375: the bundle is generated and stored
Generate(s) ==
    /\ pc[s] = "idle"
    /\ clock < MaxIssue
    /\ \E y \in YearInputs, f \in FactoryInputs, q \in SequenceInputs,
          h \in Digests, g \in GuillocheSecrets, b \in BorderSecrets, r \in SerialDraws :
          LET batch == batch_code(y, f, q)
              bun == generate_secret_bundle(batch, h, g, b, r)
          IN  /\ bundle' = [bundle EXCEPT ![s] = Some(bun)]
              /\ tag_database' =
                    [tag_database EXCEPT ![s] = store_tag_in_db(tag_database[s], bun, batch, clock)]
    /\ pc' = [pc EXCEPT ![s] = "render"]
    /\ clock' = clock + 1
    /\ UNCHANGED <<tags, last, image, result, rt, render>>

\* "Generate Full Tag", lines 382-399: the layers are rendered and composited
Assemble(s) ==
    /\ pc[s] = "render"
    /\ tags' = tags \cup {[cert_id |-> bundle[s][1].cert_id,
                             serial_number |-> bundle[s][1].serial_number,
                             qr_data |-> qr_url(bundle[s][1].cert_id)]}
    /\ pc' = [pc EXCEPT ![s] = "idle"]
    /\ bundle' = [bundle EXCEPT ![s] = None]
    /\ UNCHANGED <<tag_database, clock, last, image, result, rt, render>>

\* tab 2, lines 457-544: a photograph is analysed and the verdict shown
Verify(s) ==
    /\ pc[s] = "idle"
    /\ \E img \in Photographs : \E a \in {analyze_tag_image(img)} :
          LET tag_data == lookup_tag_data(tag_database[s], a.value)
          IN  last' = IF a.raised
                      THEN Some([session |-> s, analysis |-> None, tag_data |-> None,
                                 verdict |-> "EXCEPTION", issued |-> FALSE])
                      ELSE Some([session |-> s, analysis |-> Some(a.value),
                                 tag_data |-> tag_data,
                                 verdict |-> verdict_of(a.value, tag_data),
                                 issued |-> /\ a.value.qr_cert_id # None
                                            /\ \E t \in tags : t.cert_id = a.value.qr_cert_id[1]])
    /\ UNCHANGED <<tag_database, pc, bundle, tags, clock, image, result, rt, render>>

Next == \E s \in Sessions : Generate(s) \/ Assemble(s) \/ Verify(s)

Spec == Init /\ [][Next]_vars

(***************************************************************************)
(* analyze_tag_image on its own, over every photograph of the bounds.      *)
(***************************************************************************)
Detectors == {"qr", "guilloche", "grid", "corners"}

\* texts of decoded QR objects: no marker, a marker with nothing after it, a marker
\* with a value, two markers
Payloads ==
    {<<"x">>, <<"?">> \o IdMarker, <<"?">> \o IdMarker \o <<"A">>,
     <<"?">> \o IdMarker \o <<"A">> \o IdMarker \o <<"B">>}
QrObjects ==
    {[data |-> d, utf8 |-> TRUE] : d \in Payloads} \cup {[data |-> <<>>, utf8 |-> FALSE]}

\* image.size of the photographs
ImageSizes == {<<5, 5>>, <<5, 10>>, <<10, 10>>}

\* photographs for the analyzer: every list of decoded objects, every combination of
\* failing detectors, each of the three other layers present or absent
Images ==
    {[objects |-> o, width |-> 10, height |-> 10, cyan_pixels |-> c,
      magenta_pixels |-> 0, lines |-> l, corner_count |-> k, fails |-> x] :
        o \in UNION {[1..n -> QrObjects] : n \in 0..MaxObjects},
        c \in {0, MaxBand},
        l \in {None, Some(MinLines), Some(MinLines + 1)},
        k \in {MinCorners - 1, MinCorners},
        x \in SUBSET Detectors}

\* photographs for the guilloche detector: every pair of band counts at every size
GuillocheImages ==
    {[objects |-> <<>>, width |-> z[1], height |-> z[2], cyan_pixels |-> c,
      magenta_pixels |-> m, lines |-> None, corner_count |-> MinCorners, fails |-> x] :
        z \in ImageSizes, c \in 0..MaxBand, m \in 0..MaxBand,
        x \in {{}, {"guilloche"}}}

\* a photograph has been taken
InitAnalyze ==
    /\ tag_database = [s \in Sessions |-> <<>>]
    /\ pc = [s \in Sessions |-> "idle"]
    /\ bundle = [s \in Sessions |-> None]
    /\ tags = {}
    /\ clock = 0
    /\ last = None
    /\ image \in {Some(img) : img \in Images}
    /\ result = None
    /\ rt = [stage |-> "idle"]
    /\ RenderIdle

\* analyze_tag_image is called on the photograph
Analyze ==
    /\ result = None
    /\ result' = Some(analyze_tag_image(image[1]))
    /\ UNCHANGED <<tag_database, pc, bundle, tags, clock, last, image, rt, render>>

NextAnalyze == Analyze

SpecAnalyze == InitAnalyze /\ [][NextAnalyze]_vars

\* a photograph has been taken for the guilloche detector
InitGuilloche ==
    /\ tag_database = [s \in Sessions |-> <<>>]
    /\ pc = [s \in Sessions |-> "idle"]
    /\ bundle = [s \in Sessions |-> None]
    /\ tags = {}
    /\ clock = 0
    /\ last = None
    /\ image \in {Some(img) : img \in GuillocheImages}
    /\ result = None
    /\ rt = [stage |-> "idle"]
    /\ RenderIdle

SpecGuilloche == InitGuilloche /\ [][NextAnalyze]_vars

(***************************************************************************)
(* One identity from the batch fields through the QR payload and back.     *)
(***************************************************************************)
\* characters typed into the batch fields
BatchAlphabet == {"i", "d", "="}

\* the batch fields have been typed and the random draws are fixed
InitRoundTrip ==
    /\ tag_database = [s \in Sessions |-> <<>>]
    /\ pc = [s \in Sessions |-> "idle"]
    /\ bundle = [s \in Sessions |-> None]
    /\ tags = {}
    /\ clock = 0
    /\ last = None
    /\ image = None
    /\ result = None
    /\ rt \in {[stage |-> "typed", batch_year_short |-> y, factory_code |-> f,
                 batch_sequence |-> q, cert_hash |-> h] :
                    y \in StringsUpTo(BatchAlphabet, YearMaxChars),
                    f \in StringsUpTo(BatchAlphabet, FactoryMaxChars),
                    q \in StringsUpTo(BatchAlphabet, SequenceMaxChars),
                    h \in Digests}
    /\ RenderIdle

\* a tag is issued for the typed batch fields and its QR payload, decoded without
\* loss, is handed to detect_qr_code
RoundTrip ==
    /\ rt.stage = "typed"
    /\ \E g \in GuillocheSecrets, b \in BorderSecrets, r \in SerialDraws :
          LET batch == batch_code(rt.batch_year_short, rt.factory_code, rt.batch_sequence)
              bun == generate_secret_bundle(batch, rt.cert_hash, g, b, r)
              photo == ClearPhoto(<<[data |-> qr_url(bun.cert_id), utf8 |-> TRUE]>>)
          IN  rt' = [stage |-> "scanned",
                     batch_code |-> batch,
                     cert_id |-> bun.cert_id,
                     extracted |-> detect_qr_code(photo).value]
    /\ UNCHANGED <<tag_database, pc, bundle, tags, clock, last, image, result, render>>

NextRoundTrip == RoundTrip

SpecRoundTrip == InitRoundTrip /\ [][NextRoundTrip]_vars

(***************************************************************************)
(* Tag assembly, followed at one pixel.  A pixel is <<r, g, b, a>>.        *)
(***************************************************************************)
\* Pillow's division by 255 of a 16-bit sum: SHIFTFORDIV255 and DIV255
ShiftForDiv255(a) == ((a \div 256) + a) \div 256
Div255(a) == ShiftForDiv255(a + 128)

\* Image.alpha_composite(dst, src) at one pixel, in Pillow's 7-bit fixed point
alpha_composite(dst, src) ==
    IF src[4] = 0 THEN dst
    ELSE LET blend == dst[4] * (255 - src[4])
             outa255 == src[4] * 255 + blend
             coef1 == (src[4] * 255 * 255 * 128) \div outa255
             coef2 == 255 * 128 - coef1
             ch(n) == ShiftForDiv255(src[n] * coef1 + dst[n] * coef2 + 128 * 128) \div 128
         IN  <<ch(1), ch(2), ch(3), ShiftForDiv255(outa255 + 128)>>

\* draw.text(..., fill=ink) at one pixel of an RGBA image whose glyph coverage is mask
draw_text(dst, ink, mask) ==
    [n \in 1..4 |-> Div255(dst[n] * (255 - mask) + ink[n] * mask)]

\* Image.new("RGBA", ..., (255, 255, 255, 0)): a pixel no renderer drew on
Transparent == <<255, 255, 255, 0>>
\* Image.new("RGBA", ..., (255, 255, 255, 255)): the base of final_tag
WhiteBase == <<255, 255, 255, 255>>
\* fill of the cert_id text and of the serial number text
CertInk == <<0, 0, 0, 255>>
SerialInk == <<80, 80, 80, 255>>

\* what a pixel of each layer can be: the resized black-on-white QR image pasted with
\* its own alpha, GRID_COLOR, the three guilloche colours, MARK_COLOR
QrPixels == {Transparent, <<0, 0, 0, 255>>, <<128, 128, 128, 255>>, <<255, 255, 255, 255>>}
GridPixels == {Transparent, <<120, 120, 120, 90>>}
GuillochePixels ==
    {Transparent, <<0, 180, 220, 160>>, <<200, 0, 150, 140>>, <<0, 150, 200, 150>>}
BorderPixels == {Transparent, <<0, 0, 0, 255>>}
\* glyph coverage of a pixel: none, an antialiased edge, full
Coverages == {0, 128, 255}

\* for layer in layers: final_tag = Image.alpha_composite(final_tag, layer)
RECURSIVE composite_layers(_, _)
composite_layers(final_tag, layers) ==
    IF layers = <<>> THEN final_tag
    ELSE composite_layers(alpha_composite(final_tag, Head(layers)), Tail(layers))

\* add_text_layer: the cert_id is drawn, then the serial number
add_text_layer(base_img, cert_mask, serial_mask) ==
    draw_text(draw_text(base_img, CertInk, cert_mask), SerialInk, serial_mask)

\* the handler with the border layer composited first
tag_pixel_border_first(qr, grid, guilloche, border, cert_mask, serial_mask) ==
    add_text_layer(composite_layers(WhiteBase, <<border, qr, grid, guilloche>>),
                   cert_mask, serial_mask)
\* lines 382-393: the four layers over the white base, then the text
tag_pixel(qr, grid, guilloche, border, cert_mask, serial_mask) ==
    add_text_layer(composite_layers(WhiteBase, <<qr, grid, guilloche, border>>),
                   cert_mask, serial_mask)

\* one pixel of the rendered layers and of the glyph coverage of the two texts
PixelInputs ==
    {[stage |-> "layers", final |-> Transparent, qr |-> q, grid |-> g, guilloche |-> u,
      border |-> b, cert_mask |-> c, serial_mask |-> n] :
        q \in QrPixels, g \in GridPixels, u \in GuillochePixels,
        b \in BorderPixels, c \in Coverages, n \in Coverages}

\* the layers have been rendered
InitPixel ==
    /\ tag_database = [s \in Sessions |-> <<>>]
    /\ pc = [s \in Sessions |-> "idle"]
    /\ bundle = [s \in Sessions |-> None]
    /\ tags = {}
    /\ clock = 0
    /\ last = None
    /\ image = None
    /\ result = None
    /\ rt = [stage |-> "idle"]
    /\ pixel \in PixelInputs
    /\ walk = [stage |-> "idle"]
    /\ curve = [stage |-> "idle"]

\* lines 389-396: the tag is composited and flattened
CompositePixel ==
    /\ pixel.stage = "layers"
    /\ pixel' = [pixel EXCEPT !.stage = "tag",
                              !.final = tag_pixel(pixel.qr, pixel.grid, pixel.guilloche,
                                                  pixel.border, pixel.cert_mask,
                                                  pixel.serial_mask)]
    /\ UNCHANGED <<tag_database, pc, bundle, tags, clock, last, image, result, rt, walk, curve>>

NextPixel == CompositePixel

SpecPixel == InitPixel /\ [][NextPixel]_vars

(***************************************************************************)
(* The dash walk of generate_corner_border_layer.                          *)
(*                                                                         *)
(* Lengths are in thousandths of a pixel.  math.sin is computed to three   *)
(* decimals by Bhaskara's formula, which stays within [-1, 1].             *)
(***************************************************************************)
\* thousandths per pixel
Milli == 1000
\* pi in thousandths of a radian
PiMilli == 3142
\* THICKNESS
BorderThickness == 8
\* number of key bytes cycled through: segment % 16
KeyLength == 16
\* offset of the gap byte: params[(idx + 5) % 16]
GapOffset == 5

\* 1000 * sin(y / 1000) for 0 <= y <= PiMilli
SinHalf(y) == (16 * y * (PiMilli - y)) \div ((5 * PiMilli * PiMilli - 4 * y * (PiMilli - y)) \div Milli)

\* 1000 * math.sin(dist * 0.1) for a distance in thousandths of a pixel
SinMilli(dist) ==
    LET x == (dist \div 10) % (2 * PiMilli)
    IN  IF x <= PiMilli THEN SinHalf(x) ELSE 0 - SinHalf(x - PiMilli)

\* params[i] of a 16-byte key, i counted from 0
Byte(params, i) == params[i + 1]

\* idx = segment % 16
dash_idx(segment) == segment % KeyLength

\* mod = (params[idx] / 255) * 2 + 1; dash_len = 20 * mod * (1 + 0.3 * math.sin(dist * 0.1))
dash_len(params, segment, dist) ==
    LET mod == Milli + (2 * Milli * Byte(params, dash_idx(segment))) \div 255
    IN  (20 * mod * (10 * Milli + 3 * SinMilli(dist))) \div (10 * Milli)

\* gap_len = 12 + (params[(idx + 5) % 16] / 255) * 10
gap_len(params, segment) ==
    12 * Milli + (10 * Milli * Byte(params, (dash_idx(segment) + GapOffset) % KeyLength)) \div 255

\* thickness = int(THICKNESS * (0.8 + 0.4 * (params[idx] / 255)))
thickness(params, segment) ==
    (BorderThickness * (8 * 255 + 4 * Byte(params, dash_idx(segment)))) \div (10 * 255)

\* length = math.hypot(dx, dy) of a side, from offset to canvas_size - offset
side_length(canvas_size) == (canvas_size - 2 * (BorderThickness \div 2)) * Milli

\* values one byte of the key is changed to
ByteChanges == {0, 128, 255}

\* the parameters of the dash of a segment starting at dist that differ between two keys
changed_parameters(params, other, segment, dist) ==
    {n \in {"dash_len", "gap_len", "thickness"} :
        \/ n = "dash_len" /\ dash_len(params, segment, dist) # dash_len(other, segment, dist)
        \/ n = "gap_len" /\ gap_len(params, segment) # gap_len(other, segment)
        \/ n = "thickness" /\ thickness(params, segment) # thickness(other, segment)}

\* tag_size_px of the slider, and keys secrets.token_bytes(16) can return
CanvasSizes == {800, 1200, 1600}
BorderKeys ==
    {[k \in 1..16 |-> 0], [k \in 1..16 |-> 255], [k \in 1..16 |-> (k - 1) * 17],
     [k \in 1..16 |-> (k * 101) % 256]}

\* lines 271-276: params, segment = 0, the first side, dist = 0
InitWalk ==
    /\ tag_database = [s \in Sessions |-> <<>>]
    /\ pc = [s \in Sessions |-> "idle"]
    /\ bundle = [s \in Sessions |-> None]
    /\ tags = {}
    /\ clock = 0
    /\ last = None
    /\ image = None
    /\ result = None
    /\ rt = [stage |-> "idle"]
    /\ pixel = [stage |-> "idle"]
    /\ walk \in {[stage |-> "walk", params |-> k, canvas_size |-> c, side |-> 1, dist |-> 0,
                   segment |-> 0, start |-> 0, dash_len |-> 0, gap_len |-> 0, thickness |-> 0] :
                     k \in BorderKeys, c \in CanvasSizes}
    /\ curve = [stage |-> "idle"]

\* the segment index a side starts with, were it reset for each side
next_side_segment_reset(segment) == 0
\* the segment index a side starts with: the one the side before ended with
next_side_segment(segment) == segment

\* lines 277-292: one iteration of `while dist < length`
Dash ==
    /\ walk.stage = "walk"
    /\ walk.dist < side_length(walk.canvas_size)
    /\ walk' = [walk EXCEPT
                    !.start = walk.dist,
                    !.dash_len = dash_len(walk.params, walk.segment, walk.dist),
                    !.gap_len = gap_len(walk.params, walk.segment),
                    !.thickness = thickness(walk.params, walk.segment),
                    !.dist = walk.dist + dash_len(walk.params, walk.segment, walk.dist)
                                       + gap_len(walk.params, walk.segment),
                    !.segment = walk.segment + 1]
    /\ UNCHANGED <<tag_database, pc, bundle, tags, clock, last, image, result, rt, pixel, curve>>

\* lines 273-277: the while loop of a side ends and the for loop takes the next side
NextSide ==
    /\ walk.stage = "walk"
    /\ walk.dist >= side_length(walk.canvas_size)
    /\ walk.side < 4
    /\ walk' = [walk EXCEPT !.side = walk.side + 1, !.dist = 0,
                            !.segment = next_side_segment(walk.segment)]
    /\ UNCHANGED <<tag_database, pc, bundle, tags, clock, last, image, result, rt, pixel, curve>>

\* line 293: the fourth side is finished and the layer is returned
WalkDone ==
    /\ walk.stage = "walk"
    /\ walk.dist >= side_length(walk.canvas_size)
    /\ walk.side = 4
    /\ walk' = [walk EXCEPT !.stage = "done"]
    /\ UNCHANGED <<tag_database, pc, bundle, tags, clock, last, image, result, rt, pixel, curve>>

NextWalk == Dash \/ NextSide \/ WalkDone

SpecWalk == InitWalk /\ [][NextWalk]_vars

\* the walk is one synchronous call: it keeps running until it returns
FairSpecWalk == SpecWalk /\ WF_vars(NextWalk)

(***************************************************************************)
(* The curve parameters of generate_guilloche_underlay.                    *)
(*                                                                         *)
(* Radii are in thousandths of a pixel, the phase in thousandths of a      *)
(* radian.                                                                 *)
(***************************************************************************)
\* range(4)
Curves == 4
\* the bytes read for one curve
GroupSize == 4

\* the first index of a curve, were the groups two bytes apart
curve_base_overlapping(i) == i * 2
\* base = i * 4
curve_base(i) == i * GroupSize

\* the indices params[base % 16], params[(base + 1) % 16], ... of curve i, in the order read
curve_indices(i) == [r \in 1..GroupSize |-> (curve_base(i) + (r - 1)) % KeyLength]

\* max_radius = canvas_size * 0.475
max_radius(canvas_size) == canvas_size * 475

\* amp = max_radius * (0.7 + (params[base % 16] / 255) * 0.3)
curve_amp(canvas_size, b) == (max_radius(canvas_size) * (7 * 255 + 3 * b)) \div (10 * 255)

\* freq = 8 + (params[(base + 1) % 16] // 32)
curve_freq(b) == 8 + (b \div 32)

\* petals = 5 + (params[(base + 2) % 16] // 32)
curve_petals(b) == 5 + (b \div 32)

\* phase = (params[(base + 3) % 16] / 255) * 2 * math.pi
curve_phase(b) == (b * 2 * PiMilli) \div 255

\* keys secrets.token_bytes(16) can return: every byte value at every index
GuillocheKeys == {[k \in 1..16 |-> (v + 37 * (k - 1)) % 256] : v \in 0..255}

\* lines 221, 231: params and the first curve
InitCurves ==
    /\ tag_database = [s \in Sessions |-> <<>>]
    /\ pc = [s \in Sessions |-> "idle"]
    /\ bundle = [s \in Sessions |-> None]
    /\ tags = {}
    /\ clock = 0
    /\ last = None
    /\ image = None
    /\ result = None
    /\ rt = [stage |-> "idle"]
    /\ pixel = [stage |-> "idle"]
    /\ walk = [stage |-> "idle"]
    /\ curve \in {[stage |-> "curves", params |-> k, canvas_size |-> c, i |-> 0, reads |-> <<>>,
                    amp |-> 0, freq |-> 0, petals |-> 0, phase |-> 0] :
                      k \in GuillocheKeys, c \in CanvasSizes}

\* lines 231-239: one iteration of `for i in range(4)`
Curve ==
    /\ curve.stage = "curves"
    /\ curve.i < Curves
    /\ \E ix \in {curve_indices(curve.i)} :
          curve' = [curve EXCEPT
                      !.amp = curve_amp(curve.canvas_size, Byte(curve.params, ix[1])),
                      !.freq = curve_freq(Byte(curve.params, ix[2])),
                      !.petals = curve_petals(Byte(curve.params, ix[3])),
                      !.phase = curve_phase(Byte(curve.params, ix[4])),
                      !.reads = curve.reads \o ix,
                      !.i = curve.i + 1]
    /\ UNCHANGED <<tag_database, pc, bundle, tags, clock, last, image, result, rt, pixel, walk>>

\* line 251: the loop is over and the layer is returned
CurvesDone ==
    /\ curve.stage = "curves"
    /\ curve.i = Curves
    /\ curve' = [curve EXCEPT !.stage = "done"]
    /\ UNCHANGED <<tag_database, pc, bundle, tags, clock, last, image, result, rt, pixel, walk>>

NextCurves == Curve \/ CurvesDone

SpecCurves == InitCurves /\ [][NextCurves]_vars

(***************************************************************************)
(* Properties.                                                             *)
(***************************************************************************)
\* the analysis the analyzer returned for the photograph, when it returned one
Analyzed == result # None /\ ~result[1].raised
Res == result[1].value
Img == image[1]

\* the decoded objects whose text holds the marker
Marked(objects) == {n \in 1..Len(objects) : objects[n].utf8 /\ Contains(objects[n].data, IdMarker)}
FirstMarked(objects) == CHOOSE n \in Marked(objects) : \A k \in Marked(objects) : n <= k
\* everything after the first marker of a text
AfterMarker(d) == Drop(d, Find(d, IdMarker) + Len(IdMarker))
\* no library call and no UTF-8 decoding of the QR detector fails on the photograph
QrSound(img) == "qr" \notin img.fails /\ \A n \in 1..Len(img.objects) : img.objects[n].utf8

\* C3: in every AnalysisResult returned by analyze_tag_image, overall_valid is true
\* exactly when qr_detected, guilloche_detected, grid_detected and corners_detected
\* are all true.
C3_OverallValidIsConjunction ==
    Analyzed =>
        (Res.overall_valid = TRUE) <=>
            (/\ Res.qr_detected = TRUE
             /\ Res.guilloche_detected = TRUE
             /\ Res.grid_detected = TRUE
             /\ Res.corners_detected = TRUE)

\* an analysis in which only the corner markers are missing
C3_Witness ==
    /\ Analyzed
    /\ Res.qr_detected /\ Res.guilloche_detected /\ Res.grid_detected
    /\ ~Res.corners_detected
    /\ ~Res.overall_valid

\* C4: in every AnalysisResult returned by analyze_tag_image, qr_cert_id is not None
\* exactly when qr_detected is true.
C4_CertIdIffDetected ==
    Analyzed => ((Res.qr_cert_id # None) <=> (Res.qr_detected = TRUE))

\* the detector returned the empty string and the analysis reports no QR code
C4_Witness ==
    /\ Analyzed
    /\ detect_qr_code(Img).value = Some(<<>>)
    /\ ~Res.qr_detected
    /\ Res.qr_cert_id = None

\* C6: the QR detector reports a detection exactly when some decoded QR payload
\* contains the marker id=, and then the cert_id is the value that follows the marker;
\* with no marker in any payload nothing is detected and there is no cert_id.
C6_DetectedIffMarker ==
    (Analyzed /\ QrSound(Img)) =>
        /\ Res.qr_detected <=> (Marked(Img.objects) # {})
        /\ Marked(Img.objects) # {} =>
                Res.qr_cert_id = Some(AfterMarker(Img.objects[FirstMarked(Img.objects)].data))
        /\ Marked(Img.objects) = {} => (~Res.qr_detected /\ Res.qr_cert_id = None)

\* a detector failed on the photograph
Failed(img, d) ==
    \/ d \in img.fails
    \/ d = "qr" /\ detect_qr_loop(img.objects).raised
\* the same photograph with no failing library call
Sound(img) == [img EXCEPT !.fails = {}]
Flag(r, d) ==
    CASE d = "qr" -> r.qr_detected
      [] d = "guilloche" -> r.guilloche_detected
      [] d = "grid" -> r.grid_detected
      [] d = "corners" -> r.corners_detected

\* C7: whatever detectors fail internally, analyze_tag_image returns a complete
\* AnalysisResult; the boolean of each failed detector is false (and there is no
\* cert_id when the QR detector failed), and the boolean of each detector that did
\* not fail is what it is on the same photograph without any failure.
C7_NoFailureEscapes ==
    result # None =>
        /\ ~result[1].raised
        /\ DOMAIN Res = {"qr_detected", "qr_cert_id", "guilloche_detected",
                          "grid_detected", "corners_detected", "overall_valid"}
        /\ \A d \in Detectors :
                IF Failed(Img, d)
                THEN Flag(Res, d) = FALSE /\ (d = "qr" => Res.qr_cert_id = None)
                ELSE Flag(Res, d) = Flag(analyze_tag_image(Sound(Img)).value, d)

\* all four detectors failed and an all-false analysis came back
C7_Witness ==
    /\ Analyzed
    /\ Img.fails = Detectors
    /\ \A d \in Detectors : Flag(Res, d) = FALSE
    /\ Flag(analyze_tag_image(Sound(Img)).value, "grid") = TRUE

C5_RoundTrip ==
    rt.stage = "scanned" => rt.extracted = Some(rt.cert_id)

\* the verdict the decision table gives for an analysis and a registry
TableVerdict(analysis, db) ==
    IF analysis.qr_cert_id = None THEN "SCAN_FAILED"
    ELSE IF analysis.qr_cert_id[1] \notin DOMAIN db THEN "COUNTERFEIT"
    ELSE IF analysis.overall_valid THEN "AUTHENTIC"
    ELSE "SUSPICIOUS"

\* C1: every verification ends in exactly the verdict of the decision table, read for
\* the analysis of the photograph and the registry the session looks the cert_id up in.
C1_VerdictTable ==
    [][(last' # last) =>
          /\ last'[1].analysis # None
          /\ last'[1].verdict =
                TableVerdict(last'[1].analysis[1], tag_database[last'[1].session])]_vars

\* the four verdicts, each as the outcome of the last verification
C1_Authentic == last # None /\ last[1].verdict = "AUTHENTIC"
C1_Suspicious == last # None /\ last[1].verdict = "SUSPICIOUS"
C1_Counterfeit == last # None /\ last[1].verdict = "COUNTERFEIT"
C1_ScanFailed == last # None /\ last[1].verdict = "SCAN_FAILED"

\* a registered cert_id read off a photograph with a missing layer: SUSPICIOUS
C1_Witness ==
    /\ C1_Suspicious
    /\ last[1].analysis[1].qr_cert_id[1] \in DOMAIN tag_database[last[1].session]
    /\ ~last[1].analysis[1].overall_valid

\* C2: no step replaces or removes a record the registry already holds: an issuance
\* whose cert_id is already a key leaves the stored record as it is.
C2_NeverOverwritten ==
    [][\A s \in Sessions : \A k \in DOMAIN tag_database[s] :
          /\ k \in DOMAIN tag_database'[s]
          /\ tag_database'[s][k] = tag_database[s][k]]_vars

\* C9: a verification that extracts the cert_id of a tag already produced by an
\* issuance never ends in COUNTERFEIT: its verdict is AUTHENTIC or SUSPICIOUS.
C9_IssuedNeverCounterfeit ==
    (last # None /\ last[1].issued) => last[1].verdict \in {"AUTHENTIC", "SUSPICIOUS"}

\* C10: the registry holds only records of bundles whose tag image has been assembled.
C10_StoredOnlyAfterAssembly ==
    \A s \in Sessions : \A k \in DOMAIN tag_database[s] : \E t \in tags : t.cert_id = k

\* the layers in the order of the claim: 0 the white base, 1 QR, 2 grid, 3 guilloche,
\* 4 border, 5 and 6 the text (cert_id, serial number)
LayerValue(p, n) ==
    CASE n = 1 -> p.qr [] n = 2 -> p.grid [] n = 3 -> p.guilloche [] n = 4 -> p.border
      [] n = 5 -> p.cert_mask [] n = 6 -> p.serial_mask
LayerAlpha(p, n) ==
    IF n = 0 THEN 255 ELSE IF n <= 4 THEN LayerValue(p, n)[4] ELSE LayerValue(p, n)
LayerColour(p, n) ==
    IF n = 0 THEN WhiteBase ELSE IF n <= 4 THEN LayerValue(p, n)
    ELSE IF n = 5 THEN CertInk ELSE SerialInk
TagOf(p) == tag_pixel(p.qr, p.grid, p.guilloche, p.border, p.cert_mask, p.serial_mask)

\* C11: the final pixel is fully opaque; wherever a layer is fully opaque, the final
\* colour is the same whatever the layers below it hold (QR < grid < guilloche < border
\* < text over the white base), and it is that layer's colour when nothing above it
\* is drawn there.
C11_LaterOpaqueOccludes ==
    pixel.stage = "tag" =>
        /\ pixel.final[4] = 255
        /\ \A k \in 0..6 : LayerAlpha(pixel, k) = 255 =>
              /\ \A alt \in PixelInputs :
                    (\A n \in (k + 1)..6 : LayerValue(alt, n) = LayerValue(pixel, n))
                        /\ (k >= 1 => LayerValue(alt, k) = LayerValue(pixel, k))
                    => TagOf(alt) = pixel.final
              /\ (\A n \in (k + 1)..6 : LayerAlpha(pixel, n) = 0)
                    => pixel.final = LayerColour(pixel, k)

\* an opaque border pixel over a guilloche line, the grid and a white QR module
C11_Witness ==
    /\ pixel.stage = "tag"
    /\ pixel.border = <<0, 0, 0, 255>>
    /\ pixel.guilloche = <<200, 0, 150, 140>>
    /\ pixel.grid = <<120, 120, 120, 90>>
    /\ pixel.qr = <<255, 255, 255, 255>>
    /\ pixel.cert_mask = 0 /\ pixel.serial_mask = 0
    /\ pixel.final = <<0, 0, 0, 255>>

\* a dash has been drawn: walk.start, walk.segment - 1 are its distance and segment index
Dashed == walk.stage # "idle" /\ walk.segment > 0

(***************************************************************************)
(* C12: for every dash, the dash length, the gap length and the thickness  *)
(* are read from three different bytes of border_key, so changing one byte *)
(* of the key changes at most one of the three for that dash.              *)
(***************************************************************************)
C12_OneByteOneParameter ==
    Dashed =>
        \A j \in 1..KeyLength, v \in ByteChanges :
            Cardinality(changed_parameters(walk.params, [walk.params EXCEPT ![j] = v],
                                           walk.segment - 1, walk.start)) <= 1

\* the indices read for the curve drawn last
LastReads == SubSeq(curve.reads, Len(curve.reads) - GroupSize + 1, Len(curve.reads))

(***************************************************************************)
(* C13: curve i of the guilloche reads key bytes 4i, 4i+1, 4i+2, 4i+3, so  *)
(* no byte is read twice and after the four curves every one of the 16     *)
(* bytes has been read exactly once; the frequency lies in 8..15, the      *)
(* petal count in 5..12, the amplitude between 70% and 100% of the maximum *)
(* radius, which is 47.5% of the canvas size, and the phase between 0 and  *)
(* one full turn.                                                          *)
(***************************************************************************)
C13_GuillocheParameters ==
    curve.stage # "idle" =>
        /\ \A a, b \in DOMAIN curve.reads : a # b => curve.reads[a] # curve.reads[b]
        /\ curve.stage = "done" =>
              /\ Len(curve.reads) = KeyLength
              /\ {curve.reads[a] : a \in DOMAIN curve.reads} = 0..(KeyLength - 1)
        /\ curve.i > 0 =>
              /\ LastReads = [r \in 1..4 |-> 4 * (curve.i - 1) + (r - 1)]
              /\ curve.freq \in 8..15
              /\ curve.petals \in 5..12
              /\ 1000 * max_radius(curve.canvas_size) = 475 * curve.canvas_size * Milli
              /\ 10 * curve.amp >= 7 * max_radius(curve.canvas_size)
              /\ curve.amp <= max_radius(curve.canvas_size)
              /\ curve.phase >= 0
              /\ curve.phase <= 2 * PiMilli

\* all four curves are drawn, the last with the highest frequency, from a byte of 224 or more
C13_Witness ==
    /\ curve.stage = "done"
    /\ Len(curve.reads) = KeyLength
    /\ Byte(curve.params, 13) >= 224
    /\ curve.freq = 15

\* the least a dash and its gap add to dist: 20 * 1 * (1 - 0.3) + 12 pixels
MinStride == (20 * (10 - 3)) \div 10 + 12

\* a step of the walk within one side: an iteration of the while loop
SameSide == walk.stage = "walk" /\ walk'.stage = "walk" /\ walk'.side = walk.side /\ walk' # walk

\* a step of the walk that leaves a side: to the next side or to the end
SideLeft == walk.stage = "walk" /\ (walk'.stage = "done" \/ walk'.side # walk.side)

\* an iteration adds at least 26 pixels to dist and one to the segment index
StrideTaken ==
    /\ walk'.dist >= walk.dist + MinStride * Milli
    /\ walk'.segment = walk.segment + 1

\* a finished side hands its segment index on, and the next side starts at dist 0
SegmentCarried ==
    /\ walk.dist >= side_length(walk.canvas_size)
    /\ walk'.segment = walk.segment
    /\ walk'.stage = "walk" => (walk'.side = walk.side + 1 /\ walk'.dist = 0)

(***************************************************************************)
(* C14: the dash walk of the border ends for every key and canvas size:    *)
(* every iteration of the loop of a side adds at least 26 pixels to dist   *)
(* and exactly one to the segment index, a side is left after a bounded    *)
(* number of dashes, and the segment index is carried from one side to the *)
(* next without being reset.                                               *)
(***************************************************************************)
C14_WalkTerminates ==
    /\ [][(SameSide => StrideTaken) /\ (SideLeft => SegmentCarried)]_vars
    /\ [](walk.segment <= 4 * (side_length(walk.canvas_size) \div (MinStride * Milli) + 1))
    /\ <>(walk.stage = "done")

\* the walk is over after four sides and more dashes than the key has bytes
C14_Witness ==
    /\ walk.stage = "done"
    /\ walk.side = 4
    /\ walk.segment > KeyLength
    /\ walk.dist >= side_length(walk.canvas_size)

====
